---------------------------- MODULE Spec2Model ----------------------------
(***************************************************************************)
(* Cooperative wildfire simulation: the Environment state machine of       *)
(* src/model.py and the FirefighterAgent turn of src/agents.py.            *)
(*                                                                         *)
(* Coordinates are pairs <<x, y>>, 0-based, as in the source.  The grid is *)
(* a function from coordinates to the cell symbols " ", "T", "F", "A".     *)
(* Rewards are kept in tenths (fixed point, one decimal digit): the        *)
(* source's -0.1 is -1, 10 is 100, 5 is 50 and -2 is -20.                  *)
(* tree_density is kept in percent.                                        *)
(***************************************************************************)
EXTENDS Integers, Sequences, FiniteSets, TLC

(***************************************************************************)
(* Bounds of the model.                                                    *)
(***************************************************************************)
\* side of the square grid (the source's GRID_SIZE is 150)
GRID_SIZE == 3
\* number of agents ever handed to add_agent
MaxAgents == 2
\* largest extinguishing_radius an agent is constructed with
MaxExtRadius == 1
\* largest fire_spread_radius argument given to the constructor
MaxSpreadArg == 2
\* largest spread_delay argument given to the constructor
MaxDelayArg == 2
\* number of step() calls followed
MaxSteps == 2
\* number of step() calls followed when direct calls are made between them
MaxApiSteps == 1
\* rows of the environments fire_engulfed is probed on
ProbeHeight == 5
\* trees in one row of these environments
MaxRowTrees == 2
\* draws of random.choice allowed in _start_fires (the source allows 100)
MaxAttempts == 2
\* number of agents handed to add_agent when the grid is filled up
MaxPlaced == 6
\* distance of the agents' starting cells from the border (the source's 30)
START_MARGIN == 1
\* number of create_simulation calls followed
MaxEpisodes == 2

(***************************************************************************)
(* Program constants.                                                      *)
(***************************************************************************)
NUM_FIRES == 5
\* the defaults of the constructors' arguments
DEFAULT_SPREAD_RADIUS == 3
DEFAULT_SPREAD_DELAY == 30
DEFAULT_EXT_RADIUS == 4
RADIUS_CAP == 5
SEARCH_RADIUS == 9
COARSE == 10
\* learning rate and discount factor, in tenths
ALPHA == 1
GAMMA == 9
\* rewards, in tenths
BASE_REWARD == -1
EXTINGUISH_REWARD == 100
BONUS_REWARD == 50
FAIL_REWARD == -20

\* the source's ACTIONS (a reserved word of TLA+)
ACTION_LIST == <<"UP", "DOWN", "LEFT", "RIGHT", "EXTINGUISH", "STAY">>

EMPTY == " "
TREE == "T"
FIRE == "F"
AGENT == "A"

grid_width == GRID_SIZE
grid_height == GRID_SIZE

Coords == 0 .. (GRID_SIZE - 1)
Pos == Coords \X Coords

\* tree_density arguments, in percent
Densities == {12, 50}

VARIABLES
    grid,               \* Environment.grid
    fire_cells,         \* Environment.fire_cells
    agents,             \* Environment.agents: sequence of agent records
    spread_timer,       \* Environment.spread_timer
    fire_spread_radius, \* Environment.fire_spread_radius (clamped)
    spread_delay,       \* Environment.spread_delay (clamped)
    tree_density,       \* the constructor's tree_density argument, percent
    pc,                 \* position inside Environment.step: "idle" or "turns"
    idx,                \* index of the agent whose turn is next in step
    call,               \* the operation called last, with its arguments
    ret,                \* the value the last operation returned
    turns,              \* locals of the FirefighterAgent.step calls of the
                        \* current step(), in the order of the calls
    elapsed,            \* step() calls since the last spread event or creation
    ticks,              \* step() calls so far
    probe,              \* an environment of another size, on which
                        \* fire_engulfed is called: width, height and the
                        \* grid as the list of its rows
    q_tables,           \* the Q-table dictionaries, by reference
    episode,            \* the application's episode counter
    unchecked           \* the indexings of self.grid so far at coordinates
                        \* outside the grid: the coordinates, and whether
                        \* IndexError was raised

vars == <<grid, fire_cells, agents, spread_timer, fire_spread_radius,
          spread_delay, tree_density, pc, idx, call, ret, turns, elapsed,
          ticks, probe, q_tables, episode, unchecked>>

Max(a, b) == IF a >= b THEN a ELSE b
Min(a, b) == IF a <= b THEN a ELSE b

in_bounds(x, y) == 0 <= x /\ x < grid_width /\ 0 <= y /\ y < grid_height

TreeCells(g) == {p \in Pos : g[p] = TREE}
TreeCount(g) == Cardinality(TreeCells(g))

(***************************************************************************)
(* Environment._place_spaced_trees                                         *)
(***************************************************************************)
\* positions in the order of the list comprehension: y outer, x inner
RowMajor == [i \in 1 .. (GRID_SIZE * GRID_SIZE) |->
                <<(i - 1) % GRID_SIZE, (i - 1) \div GRID_SIZE>>]

\* the orders random.shuffle is taken to produce: the row-major list
\* rotated to start at the cell <<2, 2>> or at the cell <<1, 1>>
Shuffled(off) ==
    LET n == GRID_SIZE * GRID_SIZE
    IN  [i \in 1 .. n |-> RowMajor[(((i - 1) + off) % n) + 1]]
Shuffles == {Shuffled(off) : off \in {2 * GRID_SIZE + 2, GRID_SIZE + 1}}

\* faulty variant: the neighbourhood is not checked at all
can_place_unspaced(g, x, y) == g[<<x, y>>] # TREE

\* faulty variant: only the four orthogonal neighbours are checked
can_place_orthogonal(g, x, y) ==
    \A d \in {<<0, 0>>, <<-1, 0>>, <<1, 0>>, <<0, -1>>, <<0, 1>>} :
        in_bounds(x + d[1], y + d[2]) => g[<<x + d[1], y + d[2]>>] # TREE

can_place(g, x, y) ==
    \A dx \in {-1, 0, 1}, dy \in {-1, 0, 1} :
        in_bounds(x + dx, y + dy) => g[<<x + dx, y + dy>>] # TREE

target_trees(density) == (GRID_SIZE * GRID_SIZE * density) \div 100

RECURSIVE place_loop(_, _, _, _, _)
place_loop(positions, i, g, trees_placed, target) ==
    IF i > Len(positions) \/ trees_placed >= target
    THEN g
    ELSE LET x == positions[i][1]
             y == positions[i][2]
         IN  IF can_place(g, x, y)
             THEN place_loop(positions, i + 1, [g EXCEPT ![<<x, y>>] = TREE],
                             trees_placed + 1, target)
             ELSE place_loop(positions, i + 1, g, trees_placed, target)

place_spaced_trees(positions, density) ==
    place_loop(positions, 1, [p \in Pos |-> EMPTY], 0, target_trees(density))

(***************************************************************************)
(* Environment._ignite_tree, _start_fires                                  *)
(***************************************************************************)
\* an environment value: the grid with its fire index
Env(g, fc) == [grid |-> g, fire_cells |-> fc]

\* faulty variant: the cell is set on fire without being entered in the index
ignite_tree_unindexed(e, p) ==
    IF e.grid[p] = TREE
    THEN Env([e.grid EXCEPT ![p] = FIRE], e.fire_cells)
    ELSE e

ignite_tree(e, p) ==
    IF e.grid[p] = TREE
    THEN Env([e.grid EXCEPT ![p] = FIRE], e.fire_cells \cup {p})
    ELSE e

\* math.sqrt(dx**2 + dy**2) > r, for an integer r
FartherThan(p, q, r) ==
    (p[1] - q[1]) * (p[1] - q[1]) + (p[2] - q[2]) * (p[2] - q[2]) > r * r

RECURSIVE start_fires_loop(_, _, _, _, _, _)
start_fires_loop(e, selected, attempts, draws, ntrees, radius) ==
    IF ~(Cardinality(selected) < Min(NUM_FIRES, ntrees)
         /\ attempts < Len(draws))
    THEN e
    ELSE LET p == draws[attempts + 1]
         IN  IF \A s \in selected : FartherThan(p, s, radius)
             THEN start_fires_loop(ignite_tree(e, p), selected \cup {p},
                                   attempts + 1, draws, ntrees, radius)
             ELSE start_fires_loop(e, selected, attempts + 1, draws,
                                   ntrees, radius)

start_fires(g, draws, radius) ==
    start_fires_loop(Env(g, {}), {}, 0, draws, TreeCount(g), radius)

\* the sequences of random.choice results over tree_locations
Draws(g) ==
    IF TreeCells(g) = {} THEN {<<>>}
    ELSE [1 .. MaxAttempts -> TreeCells(g)]

(***************************************************************************)
(* Environment.__init__                                                    *)
(***************************************************************************)
clamp_radius(r) == Max(1, Min(r, RADIUS_CAP))
clamp_delay(d) == Max(1, d)

\* references to Q-table dictionaries: SHARED_Q is the dictionary that the
\* first create_simulation call creates for shared_q, the reference i >= 1
\* is the dictionary that the constructor of the i-th agent of a cohort
\* creates
SHARED_Q == 0
QRefs == 0 .. MaxPlaced
\* the empty dictionary {}
EmptyTable == <<>>

NoCall == [op |-> "init", x |-> 0, y |-> 0]
NoProbe == [width |-> 0, height |-> 0, grid |-> <<>>]

Init ==
    \E density \in Densities, positions \in Shuffles,
       r \in 0 .. MaxSpreadArg, d \in 0 .. MaxDelayArg :
        LET g == place_spaced_trees(positions, density)
        IN  \E draws \in Draws(g) :
                LET e == start_fires(g, draws, clamp_radius(r))
                IN  /\ grid = e.grid
                    /\ fire_cells = e.fire_cells
                    /\ agents = <<>>
                    /\ spread_timer = 0
                    /\ fire_spread_radius = clamp_radius(r)
                    /\ spread_delay = clamp_delay(d)
                    /\ tree_density = density
                    /\ pc = "idle"
                    /\ idx = 0
                    /\ call = NoCall
                    /\ ret = FALSE
                    /\ turns = <<>>
                    /\ elapsed = 0
                    /\ ticks = 0
                    /\ probe = NoProbe
                    /\ q_tables = [ref \in QRefs |-> EmptyTable]
                    /\ episode = 1
                    /\ unchecked = {}

(***************************************************************************)
(* Environment._get_trees_in_radius, extinguish, fire_engulfed             *)
(***************************************************************************)
\* faulty variant: the bounding square is not cut to the circle
get_trees_in_square(g, x, y, radius) ==
    {<<x + dx, y + dy>> : <<dx, dy>> \in
        {d \in (-radius .. radius) \X (-radius .. radius) :
            /\ in_bounds(x + d[1], y + d[2])
            /\ g[<<x + d[1], y + d[2]>>] = TREE}}

get_trees_in_radius(g, x, y, radius) ==
    {<<x + dx, y + dy>> : <<dx, dy>> \in
        {d \in (-radius .. radius) \X (-radius .. radius) :
            /\ in_bounds(x + d[1], y + d[2])
            /\ d[1] * d[1] + d[2] * d[2] <= radius * radius
            /\ g[<<x + d[1], y + d[2]>>] = TREE}}

\* faulty variant: a tree stands again where the fire was put out
extinguish_regrow(e, p) ==
    IF p \in e.fire_cells
    THEN [ret |-> TRUE,
          env |-> Env([e.grid EXCEPT ![p] = TREE], e.fire_cells \ {p})]
    ELSE [ret |-> FALSE, env |-> e]

\* faulty variant: the cell is cleared but stays in the fire index
extinguish_cell_only(e, p) ==
    IF p \in e.fire_cells
    THEN [ret |-> TRUE,
          env |-> Env([e.grid EXCEPT ![p] = EMPTY], e.fire_cells)]
    ELSE [ret |-> FALSE, env |-> e]

\* faulty variant: the fire is put out but the call reports failure
extinguish_unreported(e, p) ==
    IF p \in e.fire_cells
    THEN [ret |-> FALSE,
          env |-> Env([e.grid EXCEPT ![p] = EMPTY], e.fire_cells \ {p})]
    ELSE [ret |-> FALSE, env |-> e]

extinguish(e, p) ==
    IF p \in e.fire_cells
    THEN [ret |-> TRUE,
          env |-> Env([e.grid EXCEPT ![p] = EMPTY], e.fire_cells \ {p})]
    ELSE [ret |-> FALSE, env |-> e]

\* self.grid as the list of its rows
Rows(g) == [y \in 1 .. grid_height |->
                [x \in 1 .. grid_width |-> g[<<x - 1, y - 1>>]]]

\* row.count('T')
row_count(row) == Cardinality({x \in 1 .. Len(row) : row[x] = TREE})

\* faulty variant: the count has to pass the threshold
reaches_threshold_strict(trees_remaining, width, height) ==
    100 * trees_remaining > 2 * width * height

\* trees_remaining >= grid_width * grid_height * 0.02, in exact arithmetic
reaches_threshold(trees_remaining, width, height) ==
    100 * trees_remaining >= 2 * width * height

RECURSIVE engulfed_scan(_, _, _, _, _)
engulfed_scan(rows, y, trees_remaining, width, height) ==
    IF y > Len(rows)
    THEN TRUE
    ELSE LET n == trees_remaining + row_count(rows[y])
         IN  IF reaches_threshold(n, width, height) THEN FALSE
             ELSE engulfed_scan(rows, y + 1, n, width, height)

fire_engulfed(rows, width, height) ==
    engulfed_scan(rows, 1, 0, width, height)

(***************************************************************************)
(* FirefighterAgent                                                        *)
(***************************************************************************)
\* the agent as its constructor leaves it; own is the reference of the
\* dictionary it creates for q_table
Agent(x, y, radius, own) ==
    [x |-> x, y |-> y, extinguishing_radius |-> radius,
     q_table |-> own, last_reward |-> 0, extinguished_count |-> 0]

\* the pairs <<dx, dy>> of two nested range(-r, r+1) loops, dx outer
OffsetSeq(r) ==
    [i \in 1 .. ((2 * r + 1) * (2 * r + 1)) |->
        <<((i - 1) \div (2 * r + 1)) - r, ((i - 1) % (2 * r + 1)) - r>>]

get_state(a, fc) ==
    LET seen(d) == /\ d # <<0, 0>>
                   /\ in_bounds(a.x + d[1], a.y + d[2])
                   /\ <<a.x + d[1], a.y + d[2]>> \in fc
    IN  <<a.x \div COARSE, a.y \div COARSE, SelectSeq(OffsetSeq(2), seen)>>

get_fires_in_radius(a, fc) ==
    LET r == a.extinguishing_radius
        hit(d) == /\ ~(d[1] * d[1] + d[2] * d[2] > r * r)
                  /\ in_bounds(a.x + d[1], a.y + d[2])
                  /\ <<a.x + d[1], a.y + d[2]>> \in fc
        offs == SelectSeq(OffsetSeq(r), hit)
    IN  [i \in 1 .. Len(offs) |-> <<a.x + offs[i][1], a.y + offs[i][2]>>]

\* faulty variant: a cell put out is not counted
RECURSIVE extinguish_loop_uncounted(_, _, _)
extinguish_loop_uncounted(fires, i, st) ==
    IF i > Len(fires)
    THEN st
    ELSE LET res == extinguish(st.env, fires[i])
         IN  IF res.ret
             THEN extinguish_loop_uncounted(fires, i + 1,
                    [env |-> res.env,
                     agent |-> st.agent,
                     reward |-> st.reward + EXTINGUISH_REWARD
                                + BONUS_REWARD
                                  * Len(get_fires_in_radius(st.agent,
                                                            res.env.fire_cells)),
                     extinguished |-> TRUE])
             ELSE extinguish_loop_uncounted(fires, i + 1, st)

\* faulty variant: the bonus counts the fires in radius before the cell is put out
RECURSIVE extinguish_loop_stale(_, _, _)
extinguish_loop_stale(fires, i, st) ==
    IF i > Len(fires)
    THEN st
    ELSE LET res == extinguish(st.env, fires[i])
         IN  IF res.ret
             THEN extinguish_loop_stale(fires, i + 1,
                    [env |-> res.env,
                     agent |-> [st.agent EXCEPT !.extinguished_count = @ + 1],
                     reward |-> st.reward + EXTINGUISH_REWARD
                                + BONUS_REWARD
                                  * Len(get_fires_in_radius(st.agent,
                                                            st.env.fire_cells)),
                     extinguished |-> TRUE])
             ELSE extinguish_loop_stale(fires, i + 1, st)

\* the for loop of the EXTINGUISH branch; st carries env, the agent, the
\* reward and the extinguished flag
RECURSIVE extinguish_loop(_, _, _)
extinguish_loop(fires, i, st) ==
    IF i > Len(fires)
    THEN st
    ELSE LET res == extinguish(st.env, fires[i])
         IN  IF res.ret
             THEN extinguish_loop(fires, i + 1,
                    [env |-> res.env,
                     agent |-> [st.agent EXCEPT !.extinguished_count = @ + 1],
                     reward |-> st.reward + EXTINGUISH_REWARD
                                + BONUS_REWARD
                                  * Len(get_fires_in_radius(st.agent,
                                                            res.env.fire_cells)),
                     extinguished |-> TRUE])
             ELSE extinguish_loop(fires, i + 1, st)

\* faulty variant: the penalty is added to the reward so far
failed_attempt_added(st) ==
    IF ~st.extinguished THEN [st EXCEPT !.reward = @ + FAIL_REWARD] ELSE st

\* if not extinguished: reward = -2
failed_attempt(st) ==
    IF ~st.extinguished THEN [st EXCEPT !.reward = FAIL_REWARD] ELSE st

move_dx(action) == IF action = "LEFT" THEN -1
                   ELSE IF action = "RIGHT" THEN 1 ELSE 0
move_dy(action) == IF action = "UP" THEN -1
                   ELSE IF action = "DOWN" THEN 1 ELSE 0

\* faulty variant: only an EMPTY cell can be entered
can_enter_empty(g, x, y) == in_bounds(x, y) /\ g[<<x, y>>] = EMPTY

\* faulty variant: trees do not block a move
can_enter_trees(g, x, y) == in_bounds(x, y)

can_enter(g, x, y) == in_bounds(x, y) /\ g[<<x, y>>] # TREE

(***************************************************************************)
(* The Q-table: a dictionary from states to rows, a row from the actions   *)
(* to values.  Values are kept in millionths (fixed point): a reward of    *)
(* one tenth is Q_PER_TENTH millionths.                                    *)
(***************************************************************************)
Q_PER_TENTH == 100000
ActionSet == {ACTION_LIST[i] : i \in 1 .. Len(ACTION_LIST)}

\* {a: 0 for a in ACTIONS}
ZeroRow == [a \in ActionSet |-> 0]

\* q_table.setdefault(state, {a: 0 for a in ACTIONS})
setdefault(table, state) ==
    IF state \in DOMAIN table THEN table
    ELSE [k \in DOMAIN table \cup {state} |->
            IF k = state THEN ZeroRow ELSE table[k]]

\* max(row.values())
RowMax(row) ==
    CHOOSE v \in {row[a] : a \in ActionSet} : \A a \in ActionSet : row[a] <= v

\* max(row.items(), key=value)[0]: the first action of the row, in the order
\* of ACTIONS, that has the largest value
greedy_action(row) ==
    ACTION_LIST[CHOOSE i \in 1 .. Len(ACTION_LIST) :
                    /\ row[ACTION_LIST[i]] = RowMax(row)
                    /\ \A j \in 1 .. (i - 1) :
                          row[ACTION_LIST[j]] # RowMax(row)]

\* the action choose_action returns on its greedy branch
greedy_choice(table, state) == greedy_action(setdefault(table, state)[state])

\* faulty variant: the discounted value of the next state is left out
new_q_myopic(old_q, reward, max_next_q) ==
    old_q + (ALPHA * (reward * Q_PER_TENTH - old_q)) \div 10

\* old_q + alpha * (reward + gamma * max_next_q - old_q)
new_q(old_q, reward, max_next_q) ==
    old_q + (ALPHA * (reward * Q_PER_TENTH + (GAMMA * max_next_q) \div 10
                      - old_q)) \div 10

update_q(table, state, action, reward, next_state) ==
    LET t1 == setdefault(table, state)
        t2 == setdefault(t1, next_state)
        old_q == t2[state][action]
        max_next_q == RowMax(t2[next_state])
    IN  [t2 EXCEPT ![state][action] = new_q(old_q, reward, max_next_q)]

\* FirefighterAgent.step up to the call of update_q: the environment, the
\* agent and the locals after the turn
agent_step(a, e, action) ==
    LET state == get_state(a, e.fire_cells)
        fires == get_fires_in_radius(a, e.fire_cells)
        st0 == [env |-> e, agent |-> a, reward |-> BASE_REWARD,
                extinguished |-> FALSE]
        st1 == IF action = "EXTINGUISH"
               THEN failed_attempt(extinguish_loop(fires, 1, st0))
               ELSE st0
        new_x == a.x + move_dx(action)
        new_y == a.y + move_dy(action)
        moved == IF can_enter(st1.env.grid, new_x, new_y)
                 THEN [st1.agent EXCEPT !.x = new_x, !.y = new_y]
                 ELSE st1.agent
        next_state == get_state(moved, st1.env.fire_cells)
    IN  [env |-> st1.env,
         agent |-> [moved EXCEPT !.last_reward = st1.reward],
         state |-> state, fires |-> fires, reward |-> st1.reward,
         next_state |-> next_state]

(***************************************************************************)
(* Environment.add_agent                                                   *)
(***************************************************************************)
\* faulty variant: the scan runs from the largest offsets down
nearest_empty_reversed(g, x, y) ==
    LET hit(dx, dy) == /\ in_bounds(x + dx, y + dy)
                       /\ g[<<x + dx, y + dy>>] = EMPTY
        xs(r) == Max(-r, -x) .. Min(r, grid_width - 1 - x)
        ys(r) == Max(-r, -y) .. Min(r, grid_height - 1 - y)
        found(r) == \E dx \in xs(r), dy \in ys(r) : hit(dx, dy)
    IN  IF ~found(SEARCH_RADIUS) THEN <<>>
        ELSE LET r == CHOOSE r0 \in 1 .. SEARCH_RADIUS :
                        found(r0) /\ \A r1 \in 1 .. (r0 - 1) : ~found(r1)
                 dx == CHOOSE d0 \in xs(r) :
                        /\ \E dy \in ys(r) : hit(d0, dy)
                        /\ \A d1 \in xs(r) :
                              d1 > d0 => \A dy \in ys(r) : ~hit(d1, dy)
                 dy == CHOOSE d0 \in ys(r) :
                        /\ hit(dx, d0)
                        /\ \A d1 \in ys(r) : d1 > d0 => ~hit(dx, d1)
             IN  <<x + dx, y + dy>>

\* the first cell the radius / dx / dy scan finds EMPTY, or <<>> if none.
\* Offsets that leave the grid fail in_bounds, so each range(-radius,
\* radius+1) is cut to the offsets that stay on the grid.
nearest_empty(g, x, y) ==
    LET hit(dx, dy) == /\ in_bounds(x + dx, y + dy)
                       /\ g[<<x + dx, y + dy>>] = EMPTY
        xs(r) == Max(-r, -x) .. Min(r, grid_width - 1 - x)
        ys(r) == Max(-r, -y) .. Min(r, grid_height - 1 - y)
        found(r) == \E dx \in xs(r), dy \in ys(r) : hit(dx, dy)
    IN  IF ~found(SEARCH_RADIUS) THEN <<>>
        ELSE LET r == CHOOSE r0 \in 1 .. SEARCH_RADIUS :
                        found(r0) /\ \A r1 \in 1 .. (r0 - 1) : ~found(r1)
                 dx == CHOOSE d0 \in xs(r) :
                        /\ \E dy \in ys(r) : hit(d0, dy)
                        /\ \A d1 \in xs(r) :
                              d1 < d0 => \A dy \in ys(r) : ~hit(d1, dy)
                 dy == CHOOSE d0 \in ys(r) :
                        /\ hit(dx, d0)
                        /\ \A d1 \in ys(r) : d1 < d0 => ~hit(dx, d1)
             IN  <<x + dx, y + dy>>

\* faulty variant: the agent keeps the dictionary its constructor created
assign_shared_skipped(agent, shared_q) == agent

\* agent.q_table = shared_q
assign_shared(agent, shared_q) == [agent EXCEPT !.q_table = shared_q]

\* the agent create_simulation hands to add_agent, at the cell it ends on;
\* it is the own-th agent of its cohort
new_agent(x, y, radius, own, shared_q) ==
    assign_shared(Agent(x, y, radius, own), shared_q)

\* indexing a list of n elements with i: the indices n and above and those
\* below -n raise IndexError, a negative index counts from the end
indexable(i, n) == -n <= i /\ i < n
list_index(i, n) == i % n
\* the cell that self.grid[y][x] is
grid_cell(x, y) == <<list_index(x, grid_width), list_index(y, grid_height)>>

\* faulty variant: the agent is put on the requested cell whatever it shows
add_agent_unconditional(x, y, radius) ==
    /\ pc = "idle"
    /\ call' = [op |-> "add_agent", x |-> x, y |-> y]
    /\ agents' = Append(agents, new_agent(x, y, radius, Len(agents) + 1,
                                          SHARED_Q))
    /\ grid' = [grid EXCEPT ![grid_cell(x, y)] = AGENT]
    /\ ret' = TRUE
    /\ UNCHANGED <<fire_cells, spread_timer, fire_spread_radius, spread_delay,
                   tree_density, pc, idx, turns, elapsed, ticks, probe,
                   q_tables, episode, unchecked>>

\* self.grid[y][x] for coordinates outside the grid
Unchecked(x, y) ==
    [x |-> x, y |-> y,
     raised |-> ~(indexable(x, grid_width) /\ indexable(y, grid_height))]

\* add_agent on the grid g and the agent list ags, called with the agent
\* that create_simulation made for the cell <<x, y>>: the grid and the list
\* after the call; ret tells whether the agent was added
add_agent_result(g, ags, x, y, radius, shared_q) ==
    IF ~(indexable(x, grid_width) /\ indexable(y, grid_height))
    THEN \* IndexError
         [grid |-> g, agents |-> ags, ret |-> FALSE]
    ELSE IF g[grid_cell(x, y)] = EMPTY
    THEN [grid |-> [g EXCEPT ![grid_cell(x, y)] = AGENT],
          agents |-> Append(ags, new_agent(x, y, radius, Len(ags) + 1,
                                           shared_q)),
          ret |-> TRUE]
    ELSE LET n == nearest_empty(g, x, y)
         IN  IF n # <<>>
             THEN [grid |-> [g EXCEPT ![n] = AGENT],
                   agents |-> Append(ags, new_agent(n[1], n[2], radius,
                                                    Len(ags) + 1, shared_q)),
                   ret |-> TRUE]
             ELSE [grid |-> g, agents |-> ags, ret |-> FALSE]

add_agent(x, y, radius) ==
    /\ pc = "idle"
    /\ call' = [op |-> "add_agent", x |-> x, y |-> y]
    /\ unchecked' = IF in_bounds(x, y) THEN unchecked
                                       ELSE unchecked \cup {Unchecked(x, y)}
    /\ \E r \in {add_agent_result(grid, agents, x, y, radius, SHARED_Q)} :
           /\ grid' = r.grid
           /\ agents' = r.agents
           /\ ret' = r.ret
    /\ UNCHANGED <<fire_cells, spread_timer, fire_spread_radius, spread_delay,
                   tree_density, pc, idx, turns, elapsed, ticks, probe,
                   q_tables, episode>>

\* one of the add_agent calls of create_simulation
AddAgent(x, y, radius) ==
    /\ Len(agents) < MaxAgents
    /\ add_agent(x, y, radius)

(***************************************************************************)
(* Environment.step, in three parts: the timer and the clearing of the     *)
(* markers, one agent's turn, the re-marking and the spread                *)
(***************************************************************************)
AgentAt(p) == \E i \in 1 .. Len(agents) : <<agents[i].x, agents[i].y>> = p
\* some agent's self.grid[agent.y][agent.x] is the cell p
AgentIndexes(p) ==
    \E i \in 1 .. Len(agents) : grid_cell(agents[i].x, agents[i].y) = p

\* faulty variant: the markers are left where they are
clear_markers_skipped(g) == g

\* the first loop of step: the marker of every agent's cell is cleared
clear_markers(g) ==
    [p \in Pos |-> IF g[p] = AGENT /\ AgentIndexes(p) THEN EMPTY ELSE g[p]]

\* the third loop of step: every agent's cell is marked if it is EMPTY
mark_agents(g) ==
    [p \in Pos |-> IF g[p] = EMPTY /\ AgentAt(p) THEN AGENT ELSE g[p]]

StepBegin ==
    /\ pc = "idle"
    /\ ticks < MaxSteps
    /\ ticks' = ticks + 1
    /\ spread_timer' = spread_timer + 1
    /\ elapsed' = elapsed + 1
    /\ grid' = clear_markers(grid)
    /\ unchecked' = unchecked \cup
                        {Unchecked(agents[i].x, agents[i].y) : i \in
                            {j \in 1 .. Len(agents) :
                                ~in_bounds(agents[j].x, agents[j].y)}}
    /\ pc' = "turns"
    /\ idx' = 1
    /\ call' = [op |-> "step", x |-> 0, y |-> 0]
    /\ ret' = FALSE
    /\ turns' = <<>>
    /\ UNCHANGED <<fire_cells, agents, fire_spread_radius, spread_delay,
                   tree_density, probe, q_tables, episode>>

AgentStep(action) ==
    /\ pc = "turns"
    /\ idx <= Len(agents)
    /\ \E r \in {agent_step(agents[idx], Env(grid, fire_cells), action)} :
           /\ grid' = r.env.grid
           /\ fire_cells' = r.env.fire_cells
           /\ agents' = [agents EXCEPT ![idx] = r.agent]
           /\ q_tables' = [q_tables EXCEPT ![agents[idx].q_table] =
                              update_q(@, r.state, action, r.reward,
                                       r.next_state)]
           /\ turns' = Append(turns,
                    [agent |-> idx, action |-> action,
                     greedy |-> greedy_choice(q_tables[agents[idx].q_table],
                                              r.state),
                     from |-> <<agents[idx].x, agents[idx].y>>,
                     count_before |-> agents[idx].extinguished_count,
                     state |-> r.state, fires |-> r.fires,
                     reward |-> r.reward, next_state |-> r.next_state])
    /\ idx' = idx + 1
    /\ UNCHANGED <<spread_timer, fire_spread_radius, spread_delay,
                   tree_density, pc, call, ret, elapsed, ticks, probe,
                   episode, unchecked>>

new_fires(g, fc, radius) ==
    UNION {get_trees_in_radius(g, p[1], p[2], radius) : p \in fc}

RECURSIVE ignite_all(_, _)
ignite_all(e, cells) ==
    IF cells = {} THEN e
    ELSE LET p == CHOOSE q \in cells : TRUE
         IN  ignite_all(ignite_tree(e, p), cells \ {p})

\* faulty variant: the timer has to pass the delay
spread_due_late(timer, delay) == timer > delay

spread_due(timer, delay) == timer >= delay

StepEnd ==
    /\ pc = "turns"
    /\ idx > Len(agents)
    /\ \E marked \in {mark_agents(grid)} :
           IF spread_due(spread_timer, spread_delay)
           THEN \E e \in {ignite_all(Env(marked, fire_cells),
                                     new_fires(marked, fire_cells,
                                               fire_spread_radius))} :
                    /\ spread_timer' = 0
                    /\ elapsed' = 0
                    /\ grid' = e.grid
                    /\ fire_cells' = e.fire_cells
           ELSE /\ grid' = marked
                /\ UNCHANGED <<spread_timer, elapsed, fire_cells>>
    /\ pc' = "idle"
    /\ idx' = 0
    /\ turns' = <<>>
    /\ UNCHANGED <<agents, fire_spread_radius, spread_delay, tree_density,
                   call, ret, ticks, probe, q_tables,
                   episode, unchecked>>

(***************************************************************************)
(* Direct calls of Environment.extinguish and Environment.fire_engulfed    *)
(***************************************************************************)
Extinguish(x, y) ==
    /\ pc = "idle"
    /\ \E res \in {extinguish(Env(grid, fire_cells), <<x, y>>)} :
           /\ ret' = res.ret
           /\ grid' = res.env.grid
           /\ fire_cells' = res.env.fire_cells
    /\ call' = [op |-> "extinguish", x |-> x, y |-> y]
    /\ UNCHANGED <<agents, spread_timer, fire_spread_radius, spread_delay,
                   tree_density, pc, idx, turns, elapsed, ticks, probe, q_tables,
                   episode, unchecked>>

FireEngulfed ==
    /\ pc = "idle"
    /\ ret' = fire_engulfed(Rows(grid), grid_width, grid_height)
    /\ call' = [op |-> "fire_engulfed", x |-> 0, y |-> 0]
    /\ UNCHANGED <<grid, fire_cells, agents, spread_timer, fire_spread_radius,
                   spread_delay, tree_density, pc, idx, turns, elapsed, ticks, probe, q_tables,
                   episode, unchecked>>

\* the simulation as the application drives it: agents are added and
\* step() is called
Next ==
    \/ \E c \in Coords, radius \in 1 .. MaxExtRadius :
          AddAgent(c, c, radius)
    \/ StepBegin
    \/ \E i \in 1 .. Len(ACTION_LIST) : AgentStep(ACTION_LIST[i])
    \/ StepEnd

Spec == Init /\ [][Next]_vars

\* the simulation with direct calls of extinguish and fire_engulfed between
\* the steps
NextApi ==
    \/ \E c \in Coords, radius \in 1 .. MaxExtRadius :
          AddAgent(c, c, radius)
    \/ (ticks < MaxApiSteps /\ StepBegin)
    \/ \E i \in 1 .. Len(ACTION_LIST) : AgentStep(ACTION_LIST[i])
    \/ StepEnd
    \/ \E x \in -1 .. (GRID_SIZE - 1), y \in -1 .. (GRID_SIZE - 1) :
          Extinguish(x, y)
    \/ FireEngulfed

SpecApi == Init /\ [][NextApi]_vars

\* fire_engulfed on environments of 50 and more cells: each row starts with
\* up to MaxRowTrees trees and is filled up with one other symbol
ProbeWidths == {10, 20}
ProbeRow(width, k, filler) ==
    [x \in 1 .. width |-> IF x <= k THEN TREE ELSE filler]
Probes ==
    {[width |-> w, height |-> ProbeHeight,
      grid |-> [y \in 1 .. ProbeHeight |-> ProbeRow(w, ks[y], filler)]] :
        w \in ProbeWidths, ks \in [1 .. ProbeHeight -> 0 .. MaxRowTrees],
        filler \in {EMPTY, FIRE, AGENT}}

InitProbe ==
    /\ probe \in Probes
    /\ grid = [p \in Pos |-> EMPTY]
    /\ fire_cells = {}
    /\ agents = <<>>
    /\ spread_timer = 0
    /\ fire_spread_radius = 1
    /\ spread_delay = 1
    /\ tree_density = 0
    /\ pc = "idle"
    /\ idx = 0
    /\ call = NoCall
    /\ ret = FALSE
    /\ turns = <<>>
    /\ elapsed = 0
    /\ ticks = 0
    /\ q_tables = [ref \in QRefs |-> EmptyTable]
    /\ episode = 1
    /\ unchecked = {}

ProbeEngulfed ==
    /\ call.op = "init"
    /\ ret' = fire_engulfed(probe.grid, probe.width, probe.height)
    /\ call' = [op |-> "fire_engulfed", x |-> 0, y |-> 0]
    /\ UNCHANGED <<grid, fire_cells, agents, spread_timer, fire_spread_radius,
                   spread_delay, tree_density, pc, idx, turns, elapsed,
                   ticks, probe, q_tables,
                   episode, unchecked>>

NextProbe == ProbeEngulfed

SpecEngulfed == InitProbe /\ [][NextProbe]_vars

\* every agent is requested at <<2, 2>>
NextAt22 ==
    \/ \E radius \in 1 .. MaxExtRadius : AddAgent(2, 2, radius)
    \/ StepBegin
    \/ \E i \in 1 .. Len(ACTION_LIST) : AgentStep(ACTION_LIST[i])
    \/ StepEnd

SpecAt22 == Init /\ [][NextAt22]_vars

\* agents are added until no cell is EMPTY, and then once more
PlaceAgent(x, y, radius) ==
    /\ Len(agents) < MaxPlaced
    /\ add_agent(x, y, radius)

NextPlace ==
    \E c \in Coords, radius \in 1 .. MaxExtRadius : PlaceAgent(c, c, radius)

SpecPlace == Init /\ [][NextPlace]_vars

\* the simulation with agents requested on the grid and next to it
NextRequests ==
    \/ \E c \in -1 .. GRID_SIZE, radius \in 1 .. MaxExtRadius :
          AddAgent(c, c, radius)
    \/ (ticks < MaxApiSteps /\ StepBegin)
    \/ \E i \in 1 .. Len(ACTION_LIST) : AgentStep(ACTION_LIST[i])
    \/ StepEnd

SpecRequests == Init /\ [][NextRequests]_vars

(***************************************************************************)
(* The application: create_simulation and the resets of the main loop      *)
(***************************************************************************)
\* the cells the three agents are requested at
StartCells ==
    <<<<START_MARGIN, START_MARGIN>>,
      <<GRID_SIZE - START_MARGIN, START_MARGIN>>,
      <<GRID_SIZE \div 2, GRID_SIZE - START_MARGIN>>>>
\* the agents of a cohort that are followed
CohortSize == Min(Len(StartCells), MaxAgents)

\* the loop of add_agent calls
RECURSIVE add_cohort(_, _, _, _)
add_cohort(g, ags, i, shared_q) ==
    IF i > CohortSize THEN [grid |-> g, agents |-> ags]
    ELSE LET r == add_agent_result(g, ags, StartCells[i][1],
                                   StartCells[i][2], DEFAULT_EXT_RADIUS,
                                   shared_q)
         IN  add_cohort(r.grid, r.agents, i + 1, shared_q)

\* create_simulation with the table shared_q: the environment and the agents
\* it returns, for one outcome of the shuffle and of the random choices
create_simulation(shared_q, density, positions, draws) ==
    LET e == start_fires(place_spaced_trees(positions, density), draws,
                         clamp_radius(DEFAULT_SPREAD_RADIUS))
        c == add_cohort(e.grid, <<>>, 1, shared_q)
    IN  [grid |-> c.grid, fire_cells |-> e.fire_cells, agents |-> c.agents]

\* the state create_simulation(load_q=None) leaves
InitApp ==
    \E density \in Densities, positions \in Shuffles :
        \E draws \in Draws(place_spaced_trees(positions, density)) :
            \E sim \in {create_simulation(SHARED_Q, density, positions,
                                          draws)} :
                /\ grid = sim.grid
                /\ fire_cells = sim.fire_cells
                /\ agents = sim.agents
                /\ spread_timer = 0
                /\ fire_spread_radius = clamp_radius(DEFAULT_SPREAD_RADIUS)
                /\ spread_delay = clamp_delay(DEFAULT_SPREAD_DELAY)
                /\ tree_density = density
                /\ pc = "idle"
                /\ idx = 0
                /\ call = [op |-> "create_simulation", x |-> 0, y |-> 0]
                /\ ret = FALSE
                /\ turns = <<>>
                /\ elapsed = 0
                /\ ticks = 0
                /\ probe = NoProbe
                /\ q_tables = [ref \in QRefs |-> EmptyTable]
                /\ episode = 1
                /\ unchecked = {}

\* a reset of the main loop, on the key R or when the fire has engulfed the
\* grid: create_simulation(load_q=agents[0].q_table).  The constructors of
\* the new agents create new dictionaries.
Reset ==
    /\ pc = "idle"
    /\ episode < MaxEpisodes
    /\ Len(agents) >= 1
    /\ \E positions \in Shuffles :
          \E draws \in Draws(place_spaced_trees(positions, tree_density)) :
            \E sim \in {create_simulation(agents[1].q_table, tree_density,
                                          positions, draws)} :
                /\ grid' = sim.grid
                /\ fire_cells' = sim.fire_cells
                /\ agents' = sim.agents
    /\ q_tables' = [ref \in QRefs |->
                        IF ref \in 1 .. CohortSize /\ ref # agents[1].q_table
                        THEN EmptyTable ELSE q_tables[ref]]
    /\ spread_timer' = 0
    /\ elapsed' = 0
    /\ fire_spread_radius' = clamp_radius(DEFAULT_SPREAD_RADIUS)
    /\ spread_delay' = clamp_delay(DEFAULT_SPREAD_DELAY)
    /\ episode' = episode + 1
    /\ idx' = 0
    /\ call' = [op |-> "create_simulation", x |-> 0, y |-> 0]
    /\ ret' = FALSE
    /\ turns' = <<>>
    /\ UNCHANGED <<tree_density, pc, ticks, probe, unchecked>>

NextApp ==
    \/ StepBegin
    \/ \E i \in 1 .. Len(ACTION_LIST) : AgentStep(ACTION_LIST[i])
    \/ StepEnd
    \/ Reset

SpecApp == InitApp /\ [][NextApp]_vars

(***************************************************************************)
(* Properties                                                              *)
(***************************************************************************)
Range(seq) == {seq[i] : i \in 1 .. Len(seq)}
AgentPos(i) == <<agents[i].x, agents[i].y>>
\* the step taken is the end of a step() call
EndOfStep == pc = "turns" /\ pc' = "idle"
\* the step taken is the turn of one agent
AgentTurn == pc = "turns" /\ Len(turns') = Len(turns) + 1
LastTurn == turns[Len(turns)]
Moves == {"UP", "DOWN", "LEFT", "RIGHT"}

\* C1: in every reachable state fire_cells is exactly the set of the
\* coordinates whose cell shows FIRE
C1_FireIndex == fire_cells = {p \in Pos : grid[p] = FIRE}

\* a step has ended with an agent standing on a burning cell
C1_Witness ==
    /\ pc = "idle" /\ ticks >= 1
    /\ \E i \in 1 .. Len(agents) : AgentPos(i) \in fire_cells

\* C2: trees are ignited only at the end of a step() that is the
\* spread_delay-th since the last spread event or since creation; every such
\* step performs the spread event and resets the timer, no other step does
C2_SpreadTiming ==
    [][/\ (TreeCells(grid') # TreeCells(grid) \/ fire_cells' \ fire_cells # {})
            => (EndOfStep /\ elapsed = spread_delay)
       /\ EndOfStep =>
            /\ elapsed <= spread_delay
            /\ elapsed = spread_delay =>
                  /\ spread_timer' = 0
                  /\ elapsed' = 0
                  /\ fire_cells' = fire_cells
                        \cup new_fires(grid, fire_cells, fire_spread_radius)
            /\ elapsed < spread_delay =>
                  /\ fire_cells' = fire_cells
                  /\ TreeCells(grid') = TreeCells(grid)
                  /\ spread_timer' = spread_timer
                  /\ elapsed' = elapsed]_vars

\* with a delay of 2 the second step has ignited trees
C2_Witness ==
    /\ spread_delay = 2 /\ ticks = 2 /\ pc = "idle" /\ elapsed = 0
    /\ Cardinality(fire_cells) > MaxAttempts

\* C3: every agent in env.agents stands on a cell of the grid that is not
\* TREE
C3_AgentOnGround ==
    \A i \in 1 .. Len(agents) :
        /\ in_bounds(agents[i].x, agents[i].y)
        /\ grid[AgentPos(i)] # TREE

\* an agent has tried to move onto a tree and has stayed where it was
C3_Witness ==
    /\ pc = "turns" /\ turns # <<>>
    /\ LastTurn.action \in Moves
    /\ AgentPos(LastTurn.agent) = LastTurn.from
    /\ LET x == LastTurn.from[1] + move_dx(LastTurn.action)
           y == LastTurn.from[2] + move_dy(LastTurn.action)
       IN  in_bounds(x, y) /\ grid[<<x, y>>] = TREE

\* the fire cells within the Euclidean distance radius of p, p included
FiresWithin(p, radius) ==
    {c \in fire_cells :
        (c[1] - p[1]) * (c[1] - p[1]) + (c[2] - p[2]) * (c[2] - p[2])
            <= radius * radius}
\* k + (k - 1) + ... + 0
RECURSIVE SumDownFrom(_)
SumDownFrom(k) == IF k <= 0 THEN 0 ELSE k + SumDownFrom(k - 1)
\* -0.1 + 10k + 5 * ((k - 1) + (k - 2) + ... + 0), in tenths
RewardFor(k) == -1 + 100 * k + 50 * SumDownFrom(k - 1)

\* C4: the agents take their turns one after another in the order of
\* env.agents; a fire cell that an earlier agent has put out in this tick and
\* that lies in the radius of a later agent that also chose EXTINGUISH is
\* credited to the earlier agent only: the later agent does not find it, does
\* not see it in its state and does not count it in its reward or counter
C4_Sequential ==
    /\ pc = "turns" =>
          /\ Len(turns) = idx - 1
          /\ \A k \in 1 .. Len(turns) : turns[k].agent = k
    /\ \A i, j \in 1 .. Len(turns) :
          (i < j /\ turns[i].action = "EXTINGUISH"
                 /\ turns[j].action = "EXTINGUISH") =>
            \A c \in Range(turns[i].fires) :
                LET far == FartherThan(c, turns[j].from,
                                       agents[j].extinguishing_radius)
                    k == Len(turns[j].fires)
                IN  ~far =>
                      /\ c \notin fire_cells
                      /\ agents[i].extinguished_count
                            = turns[i].count_before + Len(turns[i].fires)
                      /\ c \notin Range(turns[j].fires)
                      /\ <<c[1] - turns[j].from[1], c[2] - turns[j].from[2]>>
                            \notin Range(turns[j].state[3])
                      /\ turns[j].reward
                            = (IF k = 0 THEN -20 ELSE RewardFor(k))
                      /\ agents[j].extinguished_count
                            = turns[j].count_before + k

\* two agents have chosen EXTINGUISH in one tick with a fire cell in the
\* radius of both
C4_Witness ==
    \E i, j \in 1 .. Len(turns) :
        /\ i < j
        /\ turns[i].action = "EXTINGUISH" /\ turns[j].action = "EXTINGUISH"
        /\ \E c \in Range(turns[i].fires) :
              ~FartherThan(c, turns[j].from, agents[j].extinguishing_radius)

\* C5: an EXTINGUISH with k >= 1 fire cells in the radius puts out each of
\* them, adds k to extinguished_count, leaves the agent where it is and
\* yields the reward -0.1 + 10k + 5 * ((k - 1) + ... + 0)
C5_ExtinguishAll ==
    [][(AgentTurn /\ turns'[Len(turns')].action = "EXTINGUISH"
                  /\ FiresWithin(AgentPos(idx),
                                 agents[idx].extinguishing_radius) # {}) =>
         LET cells == FiresWithin(AgentPos(idx),
                                  agents[idx].extinguishing_radius)
             k == Cardinality(cells)
         IN  /\ fire_cells' = fire_cells \ cells
             /\ grid' = [p \in Pos |-> IF p \in cells THEN EMPTY ELSE grid[p]]
             /\ agents'[idx].extinguished_count
                   = agents[idx].extinguished_count + k
             /\ agents'[idx].x = agents[idx].x
             /\ agents'[idx].y = agents[idx].y
             /\ turns'[Len(turns')].reward = RewardFor(k)
             /\ agents'[idx].last_reward = RewardFor(k)]_vars

\* an agent has put out two fire cells with one EXTINGUISH
C5_Witness ==
    /\ pc = "turns" /\ turns # <<>>
    /\ LastTurn.action = "EXTINGUISH"
    /\ Len(LastTurn.fires) = 2
    /\ agents[LastTurn.agent].extinguished_count = LastTurn.count_before + 2

\* the scenario of C6, right after the agent's turn: the only tree of the
\* grid stood at <<2, 2>> and was set on fire, the only agent was requested
\* at <<2, 2>> with radius 1 and has chosen EXTINGUISH in the first tick
C6_Scenario ==
    /\ pc = "turns" /\ ticks = 1
    /\ Len(agents) = 1 /\ Len(turns) = 1
    /\ agents[1].extinguishing_radius = 1
    /\ turns[1].action = "EXTINGUISH"
    /\ \A p \in Pos \ {<<2, 2>>} : grid[p] = EMPTY
    /\ (<<2, 2>> \in fire_cells \/ <<2, 2>> \in Range(turns[1].fires))

\* C6 as stated: in the scenario the fire is out, the reward is 15 and
\* extinguished_count is 1
C6_Original ==
    C6_Scenario =>
        /\ fire_cells = {}
        /\ turns[1].reward = 150
        /\ agents[1].extinguished_count = 1

\* C6 amended: in the scenario add_agent has moved the agent to <<1, 1>>,
\* out of reach of the fire: the fire still burns, the reward is -2 and
\* extinguished_count is 0
C6_Amended ==
    C6_Scenario =>
        /\ AgentPos(1) = <<1, 1>>
        /\ fire_cells = {<<2, 2>>}
        /\ turns[1].reward = -20
        /\ agents[1].last_reward = -20
        /\ agents[1].extinguished_count = 0

C6_Witness == C6_Scenario /\ grid[<<2, 2>>] = FIRE

\* C7: an EXTINGUISH with no fire cell in the radius yields the reward -2,
\* stored in last_reward, and changes nothing else: not the counter, the
\* position, the grid or fire_cells
C7_FailedAttempt ==
    [][(AgentTurn /\ turns'[Len(turns')].action = "EXTINGUISH"
                  /\ FiresWithin(AgentPos(idx),
                                 agents[idx].extinguishing_radius) = {}) =>
         /\ turns'[Len(turns')].reward = -20
         /\ agents' = [agents EXCEPT ![idx].last_reward = -20]
         /\ grid' = grid
         /\ fire_cells' = fire_cells]_vars

\* an agent has chosen EXTINGUISH while fire burns out of its reach
C7_Witness ==
    /\ pc = "turns" /\ turns # <<>>
    /\ LastTurn.action = "EXTINGUISH"
    /\ LastTurn.fires = <<>>
    /\ fire_cells # {}
    /\ agents[LastTurn.agent].last_reward = -20

\* C8: extinguish(x, y) returns true iff <<x, y>> is in fire_cells; then the
\* cell becomes EMPTY and leaves fire_cells, otherwise nothing changes; right
\* after a call that returned true a second call on the same cell returns
\* false and changes nothing
C8_Extinguish ==
    /\ [][call'.op = "extinguish" =>
            LET p == <<call'.x, call'.y>>
            IN  /\ ret' = (p \in fire_cells)
                /\ ret' => /\ grid' = [grid EXCEPT ![p] = EMPTY]
                           /\ fire_cells' = fire_cells \ {p}
                /\ ~ret' => /\ grid' = grid
                            /\ fire_cells' = fire_cells]_vars
    /\ [](call.op = "extinguish" /\ ret =>
            LET e == Env(grid, fire_cells)
                again == extinguish(e, <<call.x, call.y>>)
            IN  ~again.ret /\ again.env = e)

\* a direct call of extinguish has put out a fire
C8_Witness ==
    /\ call.op = "extinguish" /\ ret
    /\ grid[<<call.x, call.y>>] = EMPTY

\* C9: fire_engulfed() is true iff fewer than 2% of the cells are TREE
\* (50 * trees < width * height); FIRE, EMPTY and AGENT cells do not count,
\* and the row scan with its early exit agrees with the full count
\* the environment fire_engulfed is called on
Probed ==
    IF probe = NoProbe
    THEN [width |-> grid_width, height |-> grid_height, grid |-> Rows(grid)]
    ELSE probe
ProbeTrees ==
    Cardinality({c \in (1 .. Probed.width) \X (1 .. Probed.height) :
                    Probed.grid[c[2]][c[1]] = TREE})
C10_Spacing ==
    /\ \A p, q \in Pos :
          (p # q /\ grid[p] = TREE /\ grid[q] = TREE) =>
            (p[1] - q[1] > 1 \/ q[1] - p[1] > 1
             \/ p[2] - q[2] > 1 \/ q[2] - p[2] > 1)
    /\ TreeCount(grid) <= (tree_density * grid_width * grid_height) \div 100
    /\ ticks = 0 =>
          TreeCount(grid) + Cardinality(fire_cells)
            <= (tree_density * grid_width * grid_height) \div 100

\* several trees stand after a step
C10_Witness == ticks >= 1 /\ pc = "idle" /\ TreeCount(grid) >= 2

\* the Chebyshev distance of two cells
Chebyshev(p, q) ==
    Max(Max(p[1] - q[1], q[1] - p[1]), Max(p[2] - q[2], q[2] - p[2]))
\* the EMPTY cells within the Chebyshev distance 9 of p
EmptyNear(p) == {q \in Pos : grid[q] = EMPTY /\ Chebyshev(p, q) <= 9}
\* those of them nearest to p
EmptyNearest(p) ==
    {q \in EmptyNear(p) :
        \A q2 \in EmptyNear(p) : Chebyshev(p, q) <= Chebyshev(p, q2)}
\* q comes before q2 in a scan with dx outside and dy inside
ScanBefore(q, q2) == q[1] < q2[1] \/ (q[1] = q2[1] /\ q[2] < q2[2])
\* the step taken adds an agent at the cell q and marks the cell
AddedAt(q) ==
    /\ Len(agents') = Len(agents) + 1
    /\ SubSeq(agents', 1, Len(agents)) = agents
    /\ <<agents'[Len(agents')].x, agents'[Len(agents')].y>> = q
    /\ grid' = [grid EXCEPT ![q] = AGENT]

\* C11: add_agent with an in-bounds request adds the agent at the requested
\* cell if it is EMPTY; otherwise it adds the agent iff an EMPTY cell lies
\* within the Chebyshev distance 9, at the nearest of these cells (the first
\* of them in the dx-then-dy scan); a cell the agent is put on is marked
\* AGENT; if there is no such cell neither env.agents nor the grid changes
C11_AddAgent ==
    [][(call'.op = "add_agent" /\ in_bounds(call'.x, call'.y)) =>
         LET p == <<call'.x, call'.y>>
         IN  IF grid[p] = EMPTY
             THEN AddedAt(p)
             ELSE IF EmptyNear(p) # {}
             THEN \E q \in EmptyNearest(p) :
                      /\ \A q2 \in EmptyNearest(p) \ {q} : ScanBefore(q, q2)
                      /\ AddedAt(q)
             ELSE agents' = agents /\ grid' = grid]_vars

\* an agent was moved to another cell than the requested one, which was
\* marked AGENT, and a later agent found no EMPTY cell at all
C11_Witness ==
    /\ call.op = "add_agent" /\ ret = FALSE
    /\ \A q \in Pos : grid[q] # EMPTY
    /\ \E i, j \in 1 .. Len(agents) : i < j /\ AgentPos(i) = <<1, 1>>
                                       /\ AgentPos(j) = <<0, 1>>

\* C12: no operation indexes the grid at a coordinate outside the grid;
\* add_agent with a request outside the grid does not index the grid there
\* and raises no error
C12_Guarded == unchecked = {}

\* the table the agent i holds
TableOf(i) == q_tables[agents[i].q_table]
\* the step taken is a reset
ResetStep == episode' = episode + 1

\* C13: the agents of a cohort hold the same Q-table: the value an agent's
\* update writes is in the table of every agent, nothing but an update
\* changes that table, and after a reset that hands the table over the table
\* of the new agents has every value of the table before the reset
C13_SharedTable ==
    /\ [](\A i, j \in 1 .. Len(agents) :
            agents[i].q_table = agents[j].q_table)
    /\ [][AgentTurn =>
            LET t == turns'[Len(turns')]
                old == setdefault(setdefault(TableOf(idx), t.state),
                                  t.next_state)
                new == new_q(old[t.state][t.action], t.reward,
                             RowMax(old[t.next_state]))
            IN  \A k \in 1 .. Len(agents') :
                    /\ t.state \in DOMAIN q_tables'[agents'[k].q_table]
                    /\ q_tables'[agents'[k].q_table][t.state][t.action] = new
                    /\ \A s \in DOMAIN TableOf(k), a \in ActionSet :
                          <<s, a>> # <<t.state, t.action>> =>
                            q_tables'[agents'[k].q_table][s][a]
                                = TableOf(k)[s][a]]_vars
    /\ [][(~AgentTurn /\ ~ResetStep) =>
            \A k \in 1 .. Len(agents) :
                k <= Len(agents') =>
                    q_tables'[agents'[k].q_table] = TableOf(k)]_vars
    /\ [][ResetStep =>
            \A k \in 1 .. Len(agents') :
                \A s \in DOMAIN TableOf(1), a \in ActionSet :
                    /\ s \in DOMAIN q_tables'[agents'[k].q_table]
                    /\ q_tables'[agents'[k].q_table][s][a]
                          = TableOf(1)[s][a]]_vars

\* after a reset the second agent of the new cohort acts on a table that
\* holds values written before the reset and a value the first agent has
\* written in this tick
C13_Witness ==
    /\ episode = 2 /\ ticks = 2
    /\ pc = "turns" /\ Len(turns) = 1 /\ Len(agents) >= 2
    /\ TableOf(2)[turns[1].state][turns[1].action] # 0
    /\ \E s \in DOMAIN TableOf(2), a \in ActionSet :
          /\ <<s, a>> # <<turns[1].state, turns[1].action>>
          /\ TableOf(2)[s][a] # 0

\* the row of a state in a table, as setdefault leaves it
RowOf(table, state) ==
    IF state \in DOMAIN table THEN table[state] ELSE ZeroRow
\* the largest value of a row
Largest(row) ==
    CHOOSE v \in {row[a] : a \in ActionSet} :
        \A a \in ActionSet : v >= row[a]
\* old + 0.1 * (reward + 0.9 * largest - old), values in millionths and the
\* reward in tenths
Learned(old, reward, largest) ==
    old + (reward * 100000 + (9 * largest) \div 10 - old) \div 10

\* C14: an agent's step leaves in its table the rows of the state observed
\* before and of the state observed after the action, a missing row created
\* with six zeros; it sets Q[state][action] to
\* old + 0.1 * (reward + 0.9 * max Q[next_state] - old) and changes no other
\* entry; every row of every table has exactly the six actions
C14_UpdateQ ==
    /\ [][AgentTurn =>
            LET t == turns'[Len(turns')]
                before == TableOf(idx)
                after == q_tables'[agents[idx].q_table]
            IN  /\ DOMAIN after = DOMAIN before \cup {t.state, t.next_state}
                /\ after[t.state][t.action]
                      = Learned(RowOf(before, t.state)[t.action], t.reward,
                                Largest(RowOf(before, t.next_state)))
                /\ \A s \in DOMAIN after, a \in ActionSet :
                      <<s, a>> # <<t.state, t.action>> =>
                        after[s][a] = RowOf(before, s)[a]
                /\ \A ref \in QRefs \ {agents[idx].q_table} :
                      q_tables'[ref] = q_tables[ref]]_vars
    /\ [](\A ref \in QRefs : \A s \in DOMAIN q_tables[ref] :
            DOMAIN q_tables[ref][s] = ActionSet)

\* an agent has taken an action other than the greedy one, from a state that
\* had a row to a state that had none but this action's entry in its row,
\* with a positive value in the row of the state after
C14_Witness ==
    /\ pc = "turns" /\ turns # <<>>
    /\ LastTurn.action # LastTurn.greedy
    /\ LastTurn.state # LastTurn.next_state
    /\ {LastTurn.state, LastTurn.next_state}
          \subseteq DOMAIN TableOf(LastTurn.agent)
    /\ Largest(TableOf(LastTurn.agent)[LastTurn.next_state]) > 0
    /\ TableOf(LastTurn.agent)[LastTurn.state][LastTurn.action]
          = -10000 + 9 * (Largest(TableOf(LastTurn.agent)[LastTurn.next_state])
                          \div 100)

\* the cell one step from p in the direction of a movement action
Neighbour(p, action) ==
    CASE action = "UP" -> <<p[1], p[2] - 1>>
      [] action = "DOWN" -> <<p[1], p[2] + 1>>
      [] action = "LEFT" -> <<p[1] - 1, p[2]>>
      [] action = "RIGHT" -> <<p[1] + 1, p[2]>>

\* C15: a movement action moves the agent by one cell in its direction iff
\* that cell is on the grid and not TREE, and leaves it where it is
\* otherwise; for the movement actions and for STAY the reward is -0.1 and
\* extinguished_count and fire_cells do not change
C15_Movement ==
    [][(AgentTurn /\ turns'[Len(turns')].action # "EXTINGUISH") =>
         LET t == turns'[Len(turns')]
             dest == Neighbour(AgentPos(idx), t.action)
         IN  /\ t.action \in Moves =>
                   <<agents'[idx].x, agents'[idx].y>>
                     = (IF dest \in Pos /\ grid[dest] # TREE
                        THEN dest ELSE AgentPos(idx))
             /\ t.action = "STAY" =>
                   <<agents'[idx].x, agents'[idx].y>> = AgentPos(idx)
             /\ t.reward = -1
             /\ agents'[idx].last_reward = -1
             /\ agents'[idx].extinguished_count
                   = agents[idx].extinguished_count
             /\ fire_cells' = fire_cells
             /\ grid' = grid]_vars

\* an agent has moved onto a burning cell for the reward -0.1
C15_Witness ==
    /\ pc = "turns" /\ turns # <<>>
    /\ LastTurn.action \in Moves
    /\ AgentPos(LastTurn.agent) = Neighbour(LastTurn.from, LastTurn.action)
    /\ AgentPos(LastTurn.agent) \in fire_cells
    /\ LastTurn.reward = -1

\* some agent stands on the cell p after the step taken
StandsOn(p) ==
    \E j \in 1 .. Len(agents') : <<agents'[j].x, agents'[j].y>> = p
\* the marking of the step taken leaves TREE and FIRE cells alone, and at the
\* end of step() every marker has an agent on it and every agent on the
\* grid has a marked or burning cell under it
MarkersKept ==
    /\ (pc = "idle" /\ pc' = "turns") =>
          \A p \in Pos : grid[p] \in {TREE, FIRE} => grid'[p] = grid[p]
    /\ call'.op = "add_agent" =>
          \A p \in Pos : grid[p] \in {TREE, FIRE} => grid'[p] = grid[p]
    /\ EndOfStep =>
          /\ \A p \in Pos :
                /\ grid[p] = FIRE => grid'[p] = FIRE
                /\ grid[p] = TREE => grid'[p] \in {TREE, FIRE}
                /\ grid'[p] = AGENT => StandsOn(p)
          /\ \A i \in 1 .. Len(agents') :
                in_bounds(agents'[i].x, agents'[i].y) =>
                    grid'[<<agents'[i].x, agents'[i].y>>] \in {AGENT, FIRE}
\* the cells that agents have left during the step() that ends and that no
\* agent stands on
Vacated ==
    {turns[k].from : k \in
        {j \in 1 .. Len(turns) :
            /\ turns[j].from \in Pos
            /\ <<agents'[j].x, agents'[j].y>> # turns[j].from
            /\ ~StandsOn(turns[j].from)}}

InSpreadRange(p, q) ==
    (p[1] - q[1]) * (p[1] - q[1]) + (p[2] - q[2]) * (p[2] - q[2])
        <= fire_spread_radius * fire_spread_radius
\* the TREE cells within fire_spread_radius of a cell that burns
Exposed == {p \in Pos : grid[p] = TREE
                        /\ \E f \in fire_cells : InSpreadRange(p, f)}
\* the step taken is a spread event
SpreadEvent == EndOfStep /\ spread_timer >= spread_delay

\* C17: a spread event ignites exactly the TREE cells within
\* fire_spread_radius of a cell that burns when the event starts; a tree
\* that is only within the radius of a cell ignited by the same event stays
\* TREE; afterwards fire_cells is the old fire_cells united with the
\* ignited cells
C17_OneHop ==
    [][SpreadEvent =>
         /\ fire_cells' = fire_cells \cup Exposed
         /\ {p \in Pos : grid'[p] = FIRE /\ grid[p] # FIRE} = Exposed
         /\ TreeCells(grid') = TreeCells(grid) \ Exposed]_vars

\* a spread event has ignited trees, and a tree within the radius of one of
\* them still stands
C17_Witness ==
    /\ pc = "idle" /\ ticks >= 1 /\ elapsed = 0
    /\ Cardinality(fire_cells) >= 3
    /\ Exposed # {}

\* C18: no operation on an environment makes a TREE of a cell that is not
\* TREE or a FIRE of a cell that is not TREE, so the number of TREE cells
\* never grows; once fire_cells is empty it stays empty, and neither the TREE
\* cells nor the value of fire_engulfed() change any more
C18_OneWay ==
    [][(grid' # grid \/ fire_cells' # fire_cells) =>
         /\ \A p \in Pos :
              /\ grid'[p] = TREE => grid[p] = TREE
              /\ (grid'[p] = FIRE /\ grid[p] # FIRE) => grid[p] = TREE
         /\ TreeCount(grid') <= TreeCount(grid)
         /\ fire_cells = {} =>
              /\ fire_cells' = {}
              /\ TreeCells(grid') = TreeCells(grid)
              /\ fire_engulfed(Rows(grid'), grid_width, grid_height)
                    = fire_engulfed(Rows(grid), grid_width, grid_height)]_vars

\* the agents have put out the last fire before it could spread, trees
\* still stand, and a spread event has come and gone
C18_Witness ==
    /\ pc = "idle" /\ ticks >= 1 /\ elapsed = 0
    /\ fire_cells = {}
    /\ TreeCount(grid) >= 1
    /\ \E i \in 1 .. Len(agents) : agents[i].extinguished_count >= 1

\* the sum of extinguished_count over the agents of the list ags
RECURSIVE TotalExtinguished(_)
TotalExtinguished(ags) ==
    IF ags = <<>> THEN 0
    ELSE Head(ags).extinguished_count + TotalExtinguished(Tail(ags))

\* C19: while fire is removed by the agents' EXTINGUISH actions only, the
\* number of cells ever ignited equals the size of fire_cells plus the sum
\* of extinguished_count over env.agents: the sum is 0 before the first
\* step, and in every step the size of fire_cells plus the sum grows by the
\* number of trees ignited; no agent's extinguished_count ever decreases
C19_Credit ==
    /\ [](ticks = 0 => TotalExtinguished(agents) = 0)
    /\ [][/\ Cardinality(fire_cells') + TotalExtinguished(agents')
               = Cardinality(fire_cells) + TotalExtinguished(agents)
                 + Cardinality(TreeCells(grid) \ TreeCells(grid'))
          /\ TreeCells(grid') \subseteq TreeCells(grid)
          /\ \A i \in 1 .. Len(agents) :
                agents'[i].extinguished_count
                    >= agents[i].extinguished_count]_vars

\* fires were put out, the fire has spread and still burns
C19_Witness ==
    /\ pc = "idle" /\ ticks = 2
    /\ TotalExtinguished(agents) >= 1
    /\ fire_cells # {}
    /\ Cardinality(fire_cells) + TotalExtinguished(agents) > MaxAttempts

\* C20: with fire_spread_radius 1 no step ignites a cell: fire_cells never
\* gains a cell, so it stays within the cells set on fire at creation, and
\* the TREE cells stay as they are after the initial ignition
C20_NoSpread ==
    [][fire_spread_radius = 1 =>
         /\ fire_cells' \subseteq fire_cells
         /\ TreeCells(grid') = TreeCells(grid)
         /\ SpreadEvent => Exposed = {}]_vars

\* with the radius 1 two spread events have passed a fire that burns among
\* standing trees
C20_Witness ==
    /\ fire_spread_radius = 1 /\ spread_delay = 1
    /\ pc = "idle" /\ ticks = 2 /\ elapsed = 0
    /\ fire_cells # {}
    /\ TreeCount(grid) >= 2

TypeOK ==
    /\ grid \in [Pos -> {EMPTY, TREE, FIRE, AGENT}]
    /\ fire_cells \subseteq Pos
    /\ pc \in {"idle", "turns"}

=============================================================================
